---- MODULE Spec2Model ----
(***************************************************************************)
(* A model of four mechanisms of the framework excerpt:                    *)
(*                                                                         *)
(*   - BaseConnectionHandler (django/utils/connection.py): a per-thread    *)
(*     mapping from alias to a lazily created connection object;           *)
(*   - LazySettings / Settings / UserSettingsHolder                        *)
(*     (django/conf/__init__.py): lazy, overridable settings resolution;   *)
(*   - the shell command (django/core/management/commands/shell.py);       *)
(*   - the scaffolding generator (django/core/management/templates.py).    *)
(*                                                                         *)
(* Each mechanism has its own specifications (SpecConn; SpecSettings,      *)
(* SpecCache, SpecHolder; SpecShell; SpecTemplate); the variables of the   *)
(* other mechanisms stay at their initial values.                          *)
(***************************************************************************)
EXTENDS Integers, Sequences, FiniteSets, TLC

VARIABLES
    \* ---- BaseConnectionHandler ----
    hsettings,      \* self._settings: the constructor argument, later the resolved dict
    settingsProp,   \* the cached_property `settings`: whether evaluated, and its value
    conns,          \* self._connections (a Local): per storage slot, key -> connection
    nextId,         \* identity of the next object handed out (factory call or assignment)
    ret,            \* history: the handler operation performed last, and its outcome
    \* ---- LazySettings ----
    env,            \* os.environ.get("DJANGO_SETTINGS_MODULE") ("" when unset)
    scriptPrefix,   \* django.urls.get_script_prefix()
    wrapped,        \* settings._wrapped: empty, a Settings or a UserSettingsHolder
    cache,          \* settings.__dict__ without _wrapped: the values read so far
    configuredWith, \* history: the arguments of the configure() still in effect
    seen,           \* history: per name, the value its first successful read returned
                    \* since _wrapped was last assigned, and whether the name was
                    \* assigned or deleted since that read
    pending,        \* history: per name, the value assigned to it and not read yet
    out,            \* history: the LazySettings operation performed last, and its outcome
    \* ---- shell command ----
    shellOptions,   \* the options handle() is called with: command, interface
    stdinState,     \* sys.platform, sys.stdin.isatty(), and whether select finds data
    importable,     \* the interfaces whose import succeeds
    shellRun,       \* history: what handle() did, in order, and how it ended
    \* ---- scaffolding generator (TemplateCommand) ----
    tplInput,       \* the arguments of handle() and what it finds: the template, its
                    \* files in os.walk order, the destination as it was
    destFiles,      \* the files in the destination directory: path -> content
    tmpDirs,        \* the temporary directories that exist
    tplRun          \* handle(): where it is, self.paths_to_remove, what it did, how
                    \* it ended

connVars == <<hsettings, settingsProp, conns, nextId, ret>>

settingsVars == <<env, scriptPrefix, wrapped, cache, configuredWith, seen, pending, out>>

shellVars == <<shellOptions, stdinState, importable, shellRun>>

templateVars == <<tplInput, destFiles, tmpDirs, tplRun>>

vars == <<hsettings, settingsProp, conns, nextId, ret,
          env, scriptPrefix, wrapped, cache, configuredWith, seen, pending, out,
          shellOptions, stdinState, importable, shellRun,
          tplInput, destFiles, tmpDirs, tplRun>>

(***************************************************************************)
(* Generic helpers                                                         *)
(***************************************************************************)
Range(s) == {s[i] : i \in 1..Len(s)}

Put(f, k, v) == [x \in (DOMAIN f) \cup {k} |-> IF x = k THEN v ELSE f[x]]

Drop(f, k) == [x \in (DOMAIN f) \ {k} |-> f[x]]

EmptyMap == [x \in {} |-> 0]

\* The shell command is not run in the specifications of the handler and the
\* settings.
NoShellRun == [done |-> FALSE, events |-> <<>>, result |-> "", message |-> ""]

\* The scaffolding generator is not run in the other specifications.
TemplateUnused ==
    /\ tplInput = [template |-> "None"]
    /\ destFiles = <<>>
    /\ tmpDirs = {}
    /\ tplRun = [pc |-> "start"]

ShellUnused ==
    /\ shellOptions = [command |-> "None", interface |-> "None"]
    /\ stdinState = [platform |-> "linux", isatty |-> TRUE, ready |-> FALSE]
    /\ importable = {}
    /\ shellRun = NoShellRun

(***************************************************************************)
(* BaseConnectionHandler                                                   *)
(***************************************************************************)
\* Bounds of the model.
MaxConns == 3

Threads == {1, 2}

\* Keys used with handler[key]: two names that settings may configure and one
\* that no settings dict configures.
Keys == {"default", "replica", "ghost"}

\* The dicts a handler may be constructed with (their keys, in dict order).
SettingsChoices == {<<"replica">>}

\* getattr(django_settings, self.settings_name): what the project settings hold
\* under the subclass's settings_name (e.g. DATABASES).
DjangoSettingsAliases == <<"default", "replica">>

NoneSettings == [none |-> TRUE, keys |-> <<>>]

\* One namespace shared by every thread (a plain object in place of the Local).
SharedSlot(t) == 1

\* A Local keeps one namespace per thread: thread t reads and writes slot t.
LocalSlot(t) == t

configure_settings(settings) ==
    IF settings.none THEN DjangoSettingsAliases ELSE settings.keys

\* The value of the cached_property `settings` (evaluating it if need be).
Settings_keys ==
    IF settingsProp.cached THEN settingsProp.keys ELSE configure_settings(hsettings)

\* The state of the handler after `self.settings` has been evaluated.
SettingsTouched ==
    /\ settingsProp' = [cached |-> TRUE, keys |-> Settings_keys]
    /\ hsettings' = [none |-> FALSE, keys |-> Settings_keys]

NoRet == [thread |-> 0, op |-> "none", key |-> "", exc |-> "",
                    conns |-> <<>>, keys |-> <<>>, made |-> <<>>]

\* create_connection(alias) of a subclass: a new object, or an exception.
create_connection(alias, id, t, ok) ==
    IF ok THEN [exc |-> "", conn |-> <<[id |-> id, by |-> t, via |-> "factory"]>>]
    ELSE [exc |-> "FactoryError", conn |-> <<>>]

\* __getitem__ that constructs but forgets setattr(self._connections, alias, conn).
getitem_nocache(store, cfg, alias, id, t, ok) ==
    IF alias \in DOMAIN store
    THEN [exc |-> "", conn |-> <<store[alias]>>, store |-> store, made |-> <<>>]
    ELSE IF alias \notin Range(cfg)
    THEN [exc |-> "ConnectionDoesNotExist", conn |-> <<>>, store |-> store, made |-> <<>>]
    ELSE LET c == create_connection(alias, id, t, ok)
         IN  [exc |-> c.exc, conn |-> c.conn, store |-> store, made |-> <<alias>>]

\* __getitem__ without the `alias not in self.settings` test.
getitem_nocheck(store, cfg, alias, id, t, ok) ==
    IF alias \in DOMAIN store
    THEN [exc |-> "", conn |-> <<store[alias]>>, store |-> store, made |-> <<>>]
    ELSE LET c == create_connection(alias, id, t, ok)
         IN  [exc |-> c.exc, conn |-> c.conn,
              store |-> IF c.exc = "" THEN Put(store, alias, c.conn[1]) ELSE store,
              made |-> <<alias>>]

\* __getitem__ that tests `alias not in self.settings` before it looks in the
\* thread's namespace.
getitem_check_first(store, cfg, alias, id, t, ok) ==
    IF alias \notin Range(cfg)
    THEN [exc |-> "ConnectionDoesNotExist", conn |-> <<>>, store |-> store, made |-> <<>>]
    ELSE IF alias \in DOMAIN store
    THEN [exc |-> "", conn |-> <<store[alias]>>, store |-> store, made |-> <<>>]
    ELSE LET c == create_connection(alias, id, t, ok)
         IN  [exc |-> c.exc, conn |-> c.conn,
              store |-> IF c.exc = "" THEN Put(store, alias, c.conn[1]) ELSE store,
              made |-> <<alias>>]

\* __getitem__ on one thread's namespace `store`: the outcome, the namespace
\* afterwards and the factory calls made.
getitem(store, cfg, alias, id, t, ok) ==
    IF alias \in DOMAIN store
    THEN [exc |-> "", conn |-> <<store[alias]>>, store |-> store, made |-> <<>>]
    ELSE IF alias \notin Range(cfg)
    THEN [exc |-> "ConnectionDoesNotExist", conn |-> <<>>, store |-> store, made |-> <<>>]
    ELSE LET c == create_connection(alias, id, t, ok)
         IN  [exc |-> c.exc, conn |-> c.conn,
              store |-> IF c.exc = "" THEN Put(store, alias, c.conn[1]) ELSE store,
              made |-> <<alias>>]

\* Iteration over the keys cached in the thread instead of the configured ones.
iter_cached(cfg, store) ==
    SelectSeq(<<"default", "replica", "ghost">>, LAMBDA k : k \in DOMAIN store)

\* __iter__: iter(self.settings), the configured alias names in dict order.
iter_keys(cfg, store) == cfg

\* all(): [self[alias] for alias in self].  acc carries the namespace, the list
\* built so far and the factory calls made.
RECURSIVE all_loop(_, _, _, _, _)
all_loop(names, i, acc, t, bad) ==
    IF i > Len(names) THEN acc
    ELSE LET r == getitem(acc.store, acc.cfg, names[i], acc.id, t, names[i] \notin bad)
             nxt == [acc EXCEPT !.exc = r.exc,
                                !.conns = @ \o r.conn,
                                !.store = r.store,
                                !.made = @ \o r.made,
                                !.id = @ + Len(r.made)]
         IN  IF r.exc # "" THEN [nxt EXCEPT !.conns = <<>>]
             ELSE all_loop(names, i + 1, nxt, t, bad)

\* all() that constructs every connection anew, ignoring the thread's namespace.
all_fresh(store, cfg, id, t, bad) ==
    all_loop(iter_keys(cfg, store), 1,
             [exc |-> "", conns |-> <<>>, store |-> EmptyMap, made |-> <<>>,
              id |-> id, cfg |-> cfg], t, bad)

\* all(): [self[alias] for alias in self]
all(store, cfg, id, t, bad) ==
    all_loop(iter_keys(cfg, store), 1,
             [exc |-> "", conns |-> <<>>, store |-> store, made |-> <<>>,
              id |-> id, cfg |-> cfg], t, bad)

\* ---- actions: one per operation of the handler, run by thread t ----

\* handler[k]
GetItem(t, k) ==
    \E ok \in BOOLEAN :
        LET s == LocalSlot(t)
            r == getitem(conns[s], Settings_keys, k, nextId, t, ok)
        IN  /\ nextId + Len(r.made) <= MaxConns + 1
            /\ (r.made = <<>> => ok)
            /\ conns' = [conns EXCEPT ![s] = r.store]
            /\ nextId' = nextId + Len(r.made)
            /\ IF k \in DOMAIN conns[s]
               THEN UNCHANGED <<hsettings, settingsProp>>
               ELSE SettingsTouched
            /\ ret' = [thread |-> t, op |-> "get", key |-> k, exc |-> r.exc,
                       conns |-> r.conn, keys |-> <<>>, made |-> r.made]
            /\ UNCHANGED <<settingsVars, shellVars, templateVars>>

\* handler[k] = v, with v an object the thread has just made
SetItem(t, k) ==
    LET s == LocalSlot(t)
        v == [id |-> nextId, by |-> t, via |-> "assigned"]
    IN  /\ nextId <= MaxConns
        /\ conns' = [conns EXCEPT ![s] = Put(@, k, v)]
        /\ nextId' = nextId + 1
        /\ ret' = [thread |-> t, op |-> "set", key |-> k, exc |-> "",
                   conns |-> <<v>>, keys |-> <<>>, made |-> <<>>]
        /\ UNCHANGED <<hsettings, settingsProp>>
        /\ UNCHANGED <<settingsVars, shellVars, templateVars>>

\* del handler[k]
DelItem(t, k) ==
    LET s == LocalSlot(t)
        had == k \in DOMAIN conns[s]
    IN  /\ conns' = [conns EXCEPT ![s] = IF had THEN Drop(@, k) ELSE @]
        /\ ret' = [thread |-> t, op |-> "del", key |-> k,
                    exc |-> IF had THEN "" ELSE "AttributeError",
                    conns |-> <<>>, keys |-> <<>>, made |-> <<>>]
        /\ UNCHANGED <<hsettings, settingsProp, nextId>>
        /\ UNCHANGED <<settingsVars, shellVars, templateVars>>

\* list(handler)
Iter(t) ==
    /\ SettingsTouched
    /\ ret' = [thread |-> t, op |-> "iter", key |-> "",
                    exc |-> "",
                    conns |-> <<>>, keys |-> iter_keys(Settings_keys, conns[LocalSlot(t)]),
                    made |-> <<>>]
    /\ UNCHANGED <<conns, nextId>>
    /\ UNCHANGED <<settingsVars, shellVars, templateVars>>

\* handler.all()
All(t) ==
    \E bad \in SUBSET Range(Settings_keys) :
        LET s == LocalSlot(t)
            r == all(conns[s], Settings_keys, nextId, t, bad)
        IN  /\ r.id <= MaxConns + 1
            /\ bad \subseteq Range(r.made)
            /\ SettingsTouched
            /\ conns' = [conns EXCEPT ![s] = r.store]
            /\ nextId' = r.id
            /\ ret' = [thread |-> t, op |-> "all", key |-> "", exc |-> r.exc,
                       conns |-> r.conns, keys |-> <<>>, made |-> r.made]
            /\ UNCHANGED <<settingsVars, shellVars, templateVars>>

InitConn ==
    /\ hsettings \in {NoneSettings} \cup {[none |-> FALSE, keys |-> c] : c \in SettingsChoices}
    /\ settingsProp = [cached |-> FALSE, keys |-> <<>>]
    /\ conns = [s \in Threads |-> EmptyMap]
    /\ nextId = 1
    /\ ret = NoRet

NextConn ==
    \E t \in Threads :
        \/ \E k \in Keys : GetItem(t, k)
        \/ \E k \in Keys : SetItem(t, k)
        \/ \E k \in Keys : DelItem(t, k)
        \/ Iter(t)
        \/ All(t)

\* The handler is not used in the other specifications.
ConnUnused ==
    /\ hsettings = NoneSettings
    /\ settingsProp = [cached |-> FALSE, keys |-> <<>>]
    /\ conns = [s \in Threads |-> EmptyMap]
    /\ nextId = 1
    /\ ret = NoRet

\* The settings are not used in the specifications of the handler and the commands.
SettingsUnused ==
    /\ env = ""
    /\ scriptPrefix = <<>>
    /\ wrapped = [kind |-> "empty"]
    /\ cache = <<>>
    /\ configuredWith = [on |-> FALSE]
    /\ seen = <<>>
    /\ pending = <<>>
    /\ out = [op |-> "none"]

InitConnOnly ==
    /\ InitConn
    /\ SettingsUnused
    /\ ShellUnused
    /\ TemplateUnused

SpecConn == InitConnOnly /\ [][NextConn]_vars

(***************************************************************************)
(* Claims about BaseConnectionHandler (checked under SpecConn)             *)
(***************************************************************************)
\* Every step of SpecConn is one operation of the handler, and ret' records which:
\* the step is operation op of thread t on key k.
Did(t, op, k) == ret'.thread = t /\ ret'.op = op /\ ret'.key = k

\* C1: construct once, cache per alias.  For a configured alias a and a thread t:
\* an access that finds nothing cached calls create_connection(a) exactly once and
\* caches what it returns; an access that finds a cached connection returns that very
\* object and calls nothing; and a cached connection stays in place under every step
\* that is not handler[a] = ... or del handler[a] in thread t.  So in a run of accesses
\* with no set or del in between, the factory runs once, on the first access, and all
\* accesses return the one object.
C1_ConstructOnceCachePerAlias ==
    [][\A t \in Threads, a \in Range(Settings_keys) :
          LET isGet == Did(t, "get", a)
              isSetOrDel == Did(t, "set", a) \/ Did(t, "del", a)
              cached == a \in DOMAIN conns[t]
          IN  /\ (isGet /\ ~cached /\ ret'.exc = "") =>
                    /\ ret'.made = <<a>>
                    /\ a \in DOMAIN conns'[t]
                    /\ ret'.conns = <<conns'[t][a]>>
              /\ (isGet /\ cached) =>
                    /\ ret'.exc = ""
                    /\ ret'.made = <<>>
                    /\ ret'.conns = <<conns[t][a]>>
              /\ (cached /\ ~isSetOrDel) =>
                    /\ a \in DOMAIN conns'[t]
                    /\ conns'[t][a] = conns[t][a]
      ]_vars

\* A later access has returned the connection an earlier access constructed.
C1_Witness ==
    /\ ret.op = "get"
    /\ ret.exc = ""
    /\ ret.made = <<>>
    /\ ret.conns # <<>>
    /\ ret.conns[1].via = "factory"

\* C2: the cache is per thread.  Whatever the interleaving, every connection in a
\* thread's namespace, and every connection an operation of the thread returns, was
\* constructed or assigned by that thread; and an access by a thread that has nothing
\* cached for a configured alias calls create_connection in that thread, whatever the
\* other thread has cached.
C2_CachePerThread ==
    [][/\ \A t \in Threads : \A k \in DOMAIN conns'[t] : conns'[t][k].by = t
       /\ \A i \in 1..Len(ret'.conns) : ret'.conns[i].by = ret'.thread
       /\ \A t \in Threads, a \in Range(Settings_keys) :
             (Did(t, "get", a) /\ a \notin DOMAIN conns[t]) => ret'.made = <<a>>
      ]_vars

\* Both threads hold a connection for the same alias, each its own.
C2_Witness ==
    /\ "default" \in DOMAIN conns[1]
    /\ "default" \in DOMAIN conns[2]
    /\ conns[1]["default"].via = "factory"
    /\ conns[2]["default"].via = "factory"
    /\ conns[1]["default"] # conns[2]["default"]
    /\ ret.op = "get"
    /\ ret.thread = 2

\* C3 as stated: in every reachable state, handler[alias] for an alias that is not
\* configured raises the handler's exception class and calls no factory.
C3_UnknownAliasAlwaysRaises ==
    (ret.op = "get" /\ ret.key \notin Range(Settings_keys))
    => (ret.exc = "ConnectionDoesNotExist" /\ ret.made = <<>>)

\* C3, amended: handler[alias] for an alias that is not configured and that the
\* calling thread has not cached (by an earlier handler[alias] = ...) raises the
\* handler's exception class, calls no factory and leaves every cache unchanged.
C3_UnknownUncachedAliasRaises ==
    [][\A t \in Threads, k \in Keys :
          (Did(t, "get", k) /\ k \notin Range(Settings_keys) /\ k \notin DOMAIN conns[t])
          => /\ ret'.exc = "ConnectionDoesNotExist"
             /\ ret'.made = <<>>
             /\ ret'.conns = <<>>
             /\ conns' = conns
             /\ nextId' = nextId
      ]_vars

\* An unknown alias was refused in a thread whose cache is not empty.
C3_Witness ==
    /\ ret.op = "get"
    /\ ret.key = "ghost"
    /\ ret.exc = "ConnectionDoesNotExist"
    /\ DOMAIN conns[ret.thread] # {}

\* C4: all() materializes every configured connection for the calling thread.  When
\* it returns, the list holds one connection per configured alias in iteration order,
\* each the one now cached under that alias; an alias cached before the call keeps its
\* connection and causes no factory call; the factory ran exactly for the aliases not
\* cached before; and the namespaces of the other threads are unchanged.
C4_AllMaterializesForThread ==
    [][\A t \in Threads :
          (Did(t, "all", "") /\ ret'.exc = "")
          => LET cfg == Settings_keys
             IN  /\ Len(ret'.conns) = Len(cfg)
                 /\ \A i \in 1..Len(cfg) :
                       /\ cfg[i] \in DOMAIN conns'[t]
                       /\ ret'.conns[i] = conns'[t][cfg[i]]
                       /\ cfg[i] \in DOMAIN conns[t] => ret'.conns[i] = conns[t][cfg[i]]
                 /\ ret'.made = SelectSeq(cfg, LAMBDA a : a \notin DOMAIN conns[t])
                 /\ \A u \in Threads \ {t} : conns'[u] = conns[u]
      ]_vars

\* all() returned two connections, one reused and one constructed by the call, while
\* the other thread holds a connection of its own.
C4_Witness ==
    /\ ret.op = "all"
    /\ ret.exc = ""
    /\ Len(ret.conns) = 2
    /\ Len(ret.made) = 1
    /\ \E u \in Threads \ {ret.thread} : DOMAIN conns[u] # {}

\* C5: iteration yields exactly the configured alias names.  The configured names
\* never change, whatever is accessed, assigned or deleted in whichever thread; every
\* iteration, in any thread, yields them in order; and iterating constructs nothing
\* and changes no cache.
C5_IterYieldsConfiguredNames ==
    [][/\ Settings_keys' = Settings_keys
       /\ (\E t \in Threads : Did(t, "iter", ""))
          => /\ ret'.keys = Settings_keys
             /\ ret'.made = <<>>
             /\ conns' = conns
             /\ nextId' = nextId
      ]_vars

\* An iteration in a thread that caches an unconfigured key and lacks a configured one.
C5_Witness ==
    /\ ret.op = "iter"
    /\ Len(ret.keys) = 2
    /\ "ghost" \in DOMAIN conns[ret.thread]
    /\ "replica" \notin DOMAIN conns[ret.thread]

\* C18: explicit assignment and deletion in the connection cache.  handler[k] = conn
\* caches conn under k in the calling thread without a factory call, whether or not k
\* is configured and whether or not something was cached under k; from then on, until
\* the thread assigns or deletes k again, handler[k] in that thread returns conn with
\* no factory call; del handler[k] of a cached key removes the entry, so that the
\* next handler[k] for a configured alias calls create_connection and caches what it
\* returns; and del handler[k] of a key not cached in the thread raises
\* AttributeError and changes nothing.
C18_AssignAndDelete ==
    [][\A t \in Threads, k \in Keys :
          LET cached == k \in DOMAIN conns[t]
          IN  /\ Did(t, "set", k) =>
                    /\ ret'.exc = ""
                    /\ ret'.made = <<>>
                    /\ k \in DOMAIN conns'[t]
                    /\ <<conns'[t][k]>> = ret'.conns
                    /\ conns'[t][k].via = "assigned"
                    /\ cached => conns'[t][k] # conns[t][k]
                    /\ \A j \in DOMAIN conns[t] \ {k} :
                          j \in DOMAIN conns'[t] /\ conns'[t][j] = conns[t][j]
              /\ (cached /\ conns[t][k].via = "assigned") =>
                    /\ Did(t, "get", k) =>
                          /\ ret'.exc = ""
                          /\ ret'.made = <<>>
                          /\ ret'.conns = <<conns[t][k]>>
                    /\ ~(Did(t, "set", k) \/ Did(t, "del", k)) =>
                          (k \in DOMAIN conns'[t] /\ conns'[t][k] = conns[t][k])
              /\ (Did(t, "del", k) /\ cached) =>
                    /\ ret'.exc = ""
                    /\ conns'[t] = Drop(conns[t], k)
              /\ (Did(t, "get", k) /\ ~cached /\ k \in Range(Settings_keys)) =>
                    /\ ret'.made = <<k>>
                    /\ ret'.exc = "" =>
                          /\ k \in DOMAIN conns'[t]
                          /\ conns'[t][k].via = "factory"
                          /\ ret'.conns = <<conns'[t][k]>>
              /\ (Did(t, "del", k) /\ ~cached) =>
                    /\ ret'.exc = "AttributeError"
                    /\ conns' = conns
      ]_vars

\* A connection assigned under an unconfigured key, after other objects had been
\* handed out, was returned by a later access.
C18_Witness ==
    /\ ret.op = "get"
    /\ ret.key = "ghost"
    /\ ret.exc = ""
    /\ ret.conns # <<>>
    /\ ret.conns[1].via = "assigned"
    /\ ret.conns[1].id >= 2

(***************************************************************************)
(* Settings: values, names and modules                                     *)
(***************************************************************************)
\* Python values.  A str is a sequence of tokens (so that startswith and string
\* concatenation can be computed), a list a sequence of items.
StrV(s) == [t |-> "str", s |-> s]
ListV(s) == [t |-> "list", s |-> s]
NoneV == [t |-> "none", s |-> <<>>]
TrueV == [t |-> "bool", s |-> <<"True">>]
FalseV == [t |-> "bool", s |-> <<"False">>]
FuncV == [t |-> "function", s |-> <<>>]

\* bool(v)
Truthy(v) ==
    CASE v.t = "none" -> FALSE
      [] v.t = "bool" -> v = TrueV
      [] v.t \in {"str", "list"} -> v.s # <<>>
      [] OTHER -> TRUE

\* Attribute names, spelled out so that str.isupper() can be computed.
Spelling ==
    [DEBUG |-> <<"D", "E", "B", "U", "G">>,
     SECRET_KEY |-> <<"S", "E", "C", "R", "E", "T", "_", "K", "E", "Y">>,
     MEDIA_URL |-> <<"M", "E", "D", "I", "A", "_", "U", "R", "L">>,
     INSTALLED_APPS |-> <<"I", "N", "S", "T", "A", "L", "L", "E", "D", "_", "A", "P", "P", "S">>,
     TIME_ZONE |-> <<"T", "I", "M", "E", "_", "Z", "O", "N", "E">>,
     SETTINGS_MODULE |-> <<"S", "E", "T", "T", "I", "N", "G", "S", "_",
                           "M", "O", "D", "U", "L", "E">>,
     MY_OPT |-> <<"M", "Y", "_", "O", "P", "T">>,
     UNSET |-> <<"U", "N", "S", "E", "T">>,
     gettext_noop |-> <<"g", "e", "t", "t", "e", "x", "t", "_", "n", "o", "o", "p">>,
     Mixed_Opt |-> <<"M", "i", "x", "e", "d", "_", "O", "p", "t">>]

Names == DOMAIN Spelling

UpperChars == {"A", "B", "C", "D", "E", "F", "G", "H", "I", "J", "K", "L", "M",
               "N", "O", "P", "Q", "R", "S", "T", "U", "V", "W", "X", "Y", "Z"}
LowerChars == {"a", "b", "c", "d", "e", "f", "g", "h", "i", "j", "k", "l", "m",
               "n", "o", "p", "q", "r", "s", "t", "u", "v", "w", "x", "y", "z"}

\* a name counts as upper-case as soon as it has an upper-case letter.
isupper_any(name) == \E i \in 1..Len(Spelling[name]) : Spelling[name][i] \in UpperChars

\* str.isupper(): at least one cased character, and no lower-case one.
isupper(name) ==
    /\ \E i \in 1..Len(Spelling[name]) : Spelling[name][i] \in UpperChars \cup LowerChars
    /\ \A i \in 1..Len(Spelling[name]) : Spelling[name][i] \notin LowerChars

\* django.conf.global_settings: the names this model uses, with the values the
\* framework ships (DEBUG = False, SECRET_KEY = '', MEDIA_URL = '',
\* INSTALLED_APPS = [], TIME_ZONE = 'America/Chicago', def gettext_noop).
global_settings ==
    [DEBUG |-> FalseV,
     SECRET_KEY |-> StrV(<<>>),
     MEDIA_URL |-> StrV(<<>>),
     INSTALLED_APPS |-> ListV(<<>>),
     TIME_ZONE |-> StrV(<<"America", "/", "Chicago">>),
     gettext_noop |-> FuncV]

\* The modules importlib.import_module can find: user settings modules.
UserModules ==
    "proj.settings" :>
        [DEBUG |-> TrueV,
         SECRET_KEY |-> StrV(<<"s3cret">>),
         MEDIA_URL |-> StrV(<<"media", "/">>),
         INSTALLED_APPS |-> ListV(<<"app">>),
         MY_OPT |-> StrV(<<"x">>),
         Mixed_Opt |-> StrV(<<"y">>)] @@
    "site.settings" :>
        [MEDIA_URL |-> StrV(<<"/", "media", "/">>),
         TIME_ZONE |-> StrV(<<>>)] @@
    "bad.settings" :>
        [DEBUG |-> TrueV,
         INSTALLED_APPS |-> StrV(<<"app">>)] @@
    "mars.settings" :>
        [TIME_ZONE |-> StrV(<<"Mars", "/", "Phobos">>)]

\* Values of DJANGO_SETTINGS_MODULE: unset, the modules above, and a module that
\* cannot be imported.
EnvChoices == {""} \cup DOMAIN UserModules \cup {"no.such.module"}

\* Objects that configure(default_settings=...) is given (anything with attribute
\* access): the global_settings module, or a settings object an application built
\* itself.
DefaultObjects ==
    [global_settings |-> global_settings,
     app_defaults |-> [DEBUG |-> TrueV, MY_OPT |-> StrV(<<"d">>),
                       SETTINGS_MODULE |-> StrV(<<"app.defaults">>)]]

\* The zone files under /usr/share/zoneinfo.
ZoneInfoFiles == {<<"America", "/", "Chicago">>}

\* ---- the three kinds of object settings._wrapped can be ----
NoAttrs == [n \in {} |-> NoneV]

\* django.utils.functional.empty
Empty == [kind |-> "empty", module |-> "", attrs |-> NoAttrs,
          explicit |-> {}, deleted |-> {}, dflt |-> ""]

\* The attributes of a that are not in b, followed by those of b.
Overlay(a, b) ==
    [n \in (DOMAIN a) \cup (DOMAIN b) |-> IF n \in DOMAIN b THEN b[n] ELSE a[n]]

Restrict(f, S) == [n \in (DOMAIN f) \cap S |-> f[n]]

tuple_settings == {"ALLOWED_HOSTS", "INSTALLED_APPS", "TEMPLATE_DIRS", "LOCALE_PATHS"}

\* Settings(settings_module): the object constructed, or the exception raised.
\* (The deprecation warnings of lines 228-237 and 251-252 change no state.)
Settings_init(settings_module) ==
    IF settings_module \notin DOMAIN UserModules
    THEN [exc |-> "ImportError", obj |-> Empty]
    ELSE LET mod == UserModules[settings_module]
             fromGlobal == Restrict(global_settings,
                                    {n \in DOMAIN global_settings : isupper(n)})
             named == Put(fromGlobal, "SETTINGS_MODULE", StrV(<<settings_module>>))
             explicit == {n \in DOMAIN mod : isupper(n)}
             attrs == Overlay(named, Restrict(mod, explicit))
             badTuple == \E n \in explicit :
                             n \in tuple_settings /\ mod[n].t \notin {"list", "tuple"}
         IN  IF badTuple
             THEN [exc |-> "ImproperlyConfigured", obj |-> Empty]
             ELSE IF Truthy(attrs["TIME_ZONE"]) /\ attrs["TIME_ZONE"].s \notin ZoneInfoFiles
             THEN [exc |-> "ValueError", obj |-> Empty]
             ELSE [exc |-> "",
                   obj |-> [kind |-> "Settings", module |-> settings_module,
                            attrs |-> attrs, explicit |-> explicit,
                            deleted |-> {}, dflt |-> ""]]

\* a holder that always falls back to global_settings.
UserSettingsHolder_init_global(default_settings) ==
    [kind |-> "Holder", module |-> "", attrs |-> NoAttrs,
     explicit |-> {}, deleted |-> {}, dflt |-> "global_settings"]

\* UserSettingsHolder(default_settings)
UserSettingsHolder_init(default_settings) ==
    [kind |-> "Holder", module |-> "", attrs |-> NoAttrs,
     explicit |-> {}, deleted |-> {}, dflt |-> default_settings]

\* getattr(default_settings, name)
default_getattr(default_settings, name) ==
    LET D == DefaultObjects[default_settings]
    IN  IF name \in DOMAIN D THEN [exc |-> "", val |-> D[name]]
        ELSE [exc |-> "AttributeError", val |-> NoneV]

\* getattr(obj, name) for obj a Settings or a UserSettingsHolder: the instance
\* attribute, else the class attribute (UserSettingsHolder.SETTINGS_MODULE = None),
\* else UserSettingsHolder.__getattr__.
obj_getattr(obj, name) ==
    IF name \in DOMAIN obj.attrs THEN [exc |-> "", val |-> obj.attrs[name]]
    ELSE IF obj.kind = "Settings" THEN [exc |-> "AttributeError", val |-> NoneV]
    ELSE IF name = "SETTINGS_MODULE" THEN [exc |-> "", val |-> NoneV]
    ELSE IF ~isupper(name) \/ name \in obj.deleted
    THEN [exc |-> "AttributeError", val |-> NoneV]
    ELSE default_getattr(obj.dflt, name)

\* setattr(obj, name, value): plain on a Settings, UserSettingsHolder.__setattr__
\* on a holder.
obj_setattr(obj, name, value) ==
    [obj EXCEPT !.attrs = Put(@, name, value),
                !.deleted = IF obj.kind = "Holder" THEN @ \ {name} ELSE @]

\* UserSettingsHolder.__delattr__ without `self._deleted.add(name)`.
obj_delattr_unmarked(obj, name) ==
    IF name \in DOMAIN obj.attrs
    THEN [exc |-> "", obj |-> [obj EXCEPT !.attrs = Drop(@, name)]]
    ELSE IF obj.kind = "Settings" \/ name = "SETTINGS_MODULE"
    THEN [exc |-> "AttributeError", obj |-> obj]
    ELSE [exc |-> "", obj |-> obj]

\* delattr(obj, name): the object afterwards and the exception raised.  A holder
\* records the name in _deleted first; object.__delattr__ then raises for a name
\* that hasattr finds only on the class.
obj_delattr(obj, name) ==
    IF obj.kind = "Settings"
    THEN IF name \in DOMAIN obj.attrs
         THEN [exc |-> "", obj |-> [obj EXCEPT !.attrs = Drop(@, name)]]
         ELSE [exc |-> "AttributeError", obj |-> obj]
    ELSE LET marked == [obj EXCEPT !.deleted = @ \cup {name}]
         IN  IF name \in DOMAIN obj.attrs
             THEN [exc |-> "", obj |-> [marked EXCEPT !.attrs = Drop(@, name)]]
             ELSE IF name = "SETTINGS_MODULE"
             THEN [exc |-> "AttributeError", obj |-> marked]
             ELSE [exc |-> "", obj |-> marked]

\* obj.is_overridden(setting), for a Settings and for a UserSettingsHolder (whose
\* default_settings here have no is_overridden of their own).
is_overridden(obj, setting) ==
    IF obj.kind = "Settings" THEN setting \in obj.explicit
    ELSE setting \in obj.deleted \/ setting \in DOMAIN obj.attrs

\* dir(holder): UserSettingsHolder.__dir__ (as a set)
holder_dir(obj) ==
    ((DOMAIN obj.attrs) \cup {"_deleted", "default_settings"}
         \cup DOMAIN DefaultObjects[obj.dflt]) \ obj.deleted

\* LazySettings._add_script_prefix(value)
add_script_prefix(value, prefix) ==
    IF value.s # <<>> /\ Head(value.s) \in {"http://", "https://", "/"}
    THEN value
    ELSE StrV(prefix \o value.s)

\* LazySettings._setup(name): the exception raised, or the Settings constructed.
setup(envv) ==
    IF envv = "" THEN [exc |-> "ImproperlyConfigured", obj |-> Empty]
    ELSE Settings_init(envv)

\* _setup runs on every call, configured or not.
ensure_setup_always(w, envv) ==
    LET st == setup(envv)
    IN  [exc |-> st.exc, obj |-> st.obj,
         how |-> IF st.exc = "" THEN "loaded" ELSE "failed"]

\* `if self._wrapped is empty: self._setup(name)`, as __getattr__ runs it (and as the
\* inherited LazyObject.__setattr__ / __delattr__ do).
ensure_setup(w, envv) ==
    IF w.kind # "empty" THEN [exc |-> "", obj |-> w, how |-> "none"]
    ELSE LET st == setup(envv)
         IN  [exc |-> st.exc, obj |-> st.obj,
              how |-> IF st.exc = "" THEN "loaded" ELSE "failed"]

\* The outcome of one operation on the LazySettings: exception, value returned,
\* whether _setup ran, and _wrapped and the cache afterwards.
Outcome(exc, val, how, w, c) ==
    [exc |-> exc, val |-> val, setup |-> how, wrapped |-> w, cache |-> c]

\* getattr(self._wrapped, name, None): a missing name reads as None.
LazySettings_getattr_default(w, c, name, envv, prefix) ==
    LET st == ensure_setup(w, envv)
    IN  IF st.exc # "" THEN Outcome(st.exc, NoneV, st.how, w, c)
        ELSE LET c0 == IF st.how = "loaded" THEN NoAttrs ELSE c
                 g == obj_getattr(st.obj, name)
                 v == IF g.exc # "" THEN NoneV ELSE g.val
             IN  Outcome("", v, st.how, st.obj, Put(c0, name, v))

\* __getattr__ that returns the value without `self.__dict__[name] = val`.
LazySettings_getattr_nostore(w, c, name, envv, prefix) ==
    LET st == ensure_setup(w, envv)
    IN  IF st.exc # "" THEN Outcome(st.exc, NoneV, st.how, w, c)
        ELSE LET c0 == IF st.how = "loaded" THEN NoAttrs ELSE c
                 g == obj_getattr(st.obj, name)
             IN  IF g.exc # "" THEN Outcome(g.exc, NoneV, st.how, st.obj, c0)
                 ELSE IF name \in {"MEDIA_URL", "STATIC_URL"} /\ g.val # NoneV
                 THEN Outcome("", add_script_prefix(g.val, prefix), st.how, st.obj, c0)
                 ELSE IF name = "SECRET_KEY" /\ ~Truthy(g.val)
                 THEN Outcome("ImproperlyConfigured", NoneV, st.how, st.obj, c0)
                 ELSE Outcome("", g.val, st.how, st.obj, c0)

\* LazySettings.__getattr__(name), called when name is not in self.__dict__.
\* (self._wrapped = Settings(...) in _setup goes through __setattr__, which clears
\* the cache.)
LazySettings_getattr(w, c, name, envv, prefix) ==
    LET st == ensure_setup(w, envv)
    IN  IF st.exc # "" THEN Outcome(st.exc, NoneV, st.how, w, c)
        ELSE LET c0 == IF st.how = "loaded" THEN NoAttrs ELSE c
                 g == obj_getattr(st.obj, name)
             IN  IF g.exc # "" THEN Outcome(g.exc, NoneV, st.how, st.obj, c0)
                 ELSE IF name \in {"MEDIA_URL", "STATIC_URL"} /\ g.val # NoneV
                 THEN LET v == add_script_prefix(g.val, prefix)
                      IN  Outcome("", v, st.how, st.obj, Put(c0, name, v))
                 ELSE IF name = "SECRET_KEY" /\ ~Truthy(g.val)
                 THEN Outcome("ImproperlyConfigured", NoneV, st.how, st.obj, c0)
                 ELSE Outcome("", g.val, st.how, st.obj, Put(c0, name, g.val))

\* every read goes to __getattr__, whatever the instance __dict__ holds.
LazySettings_read_nocache(w, c, name, envv, prefix) ==
    LazySettings_getattr(w, c, name, envv, prefix)

\* settings.<name>: the instance __dict__ first, then __getattr__.
LazySettings_read(w, c, name, envv, prefix) ==
    IF name \in DOMAIN c THEN Outcome("", c[name], "none", w, c)
    ELSE LazySettings_getattr(w, c, name, envv, prefix)

\* LazyObject.__setattr__(name, value) for a name other than _wrapped
\* (django/utils/functional.py): set up if _wrapped is empty, then set the
\* attribute on the wrapped object.
LazyObject_setattr(w, name, value, envv) ==
    LET st == ensure_setup(w, envv)
    IN  IF st.exc # "" THEN [exc |-> st.exc, obj |-> w, how |-> st.how]
        ELSE [exc |-> "", obj |-> obj_setattr(st.obj, name, value), how |-> st.how]

\* LazyObject.__delattr__(name) for a name other than _wrapped: set up if _wrapped
\* is empty, then delete the attribute on the wrapped object.
LazyObject_delattr(w, name, envv) ==
    LET st == ensure_setup(w, envv)
    IN  IF st.exc # "" THEN [exc |-> st.exc, obj |-> w, how |-> st.how]
        ELSE LET d == obj_delattr(st.obj, name)
             IN  [exc |-> d.exc, obj |-> d.obj, how |-> st.how]

\* __setattr__ without `self.__dict__.pop(name, None)`.
LazySettings_setattr_stale(w, c, name, value, envv) ==
    LET r == LazyObject_setattr(w, name, value, envv)
    IN  Outcome(r.exc, NoneV, r.how, r.obj,
                IF r.how = "loaded" THEN NoAttrs ELSE c)

\* settings.<name> = value, for a name other than _wrapped: pop the cached value,
\* then super().__setattr__.
LazySettings_setattr(w, c, name, value, envv) ==
    LET popped == Drop(c, name)
        r == LazyObject_setattr(w, name, value, envv)
    IN  Outcome(r.exc, NoneV, r.how, r.obj,
                IF r.how = "loaded" THEN NoAttrs ELSE popped)

\* del settings.<name>: super().__delattr__, and only if that returns, pop the
\* cached value.
LazySettings_delattr(w, c, name, envv) ==
    LET r == LazyObject_delattr(w, name, envv)
        c0 == IF r.how = "loaded" THEN NoAttrs ELSE c
    IN  Outcome(r.exc, NoneV, r.how, r.obj,
                IF r.exc # "" THEN c0 ELSE Drop(c0, name))

\* configure() that installs the holder before it validates the option names.
LazySettings_configure_holder_first(w, c, default_settings, options) ==
    IF w.kind # "empty" THEN Outcome("RuntimeError", NoneV, "none", w, c)
    ELSE IF \E n \in DOMAIN options : ~isupper(n)
    THEN Outcome("TypeError", NoneV, "none",
                 UserSettingsHolder_init(default_settings), NoAttrs)
    ELSE Outcome("", NoneV, "none",
                 [UserSettingsHolder_init(default_settings) EXCEPT !.attrs = options],
                 NoAttrs)

\* configure() without the `already configured` check.
LazySettings_configure_unguarded(w, c, default_settings, options) ==
    IF \E n \in DOMAIN options : ~isupper(n)
    THEN Outcome("TypeError", NoneV, "none", w, c)
    ELSE Outcome("", NoneV, "none",
                 [UserSettingsHolder_init(default_settings) EXCEPT !.attrs = options],
                 NoAttrs)

\* settings.configure(default_settings, **options)
LazySettings_configure(w, c, default_settings, options) ==
    IF w.kind # "empty" THEN Outcome("RuntimeError", NoneV, "none", w, c)
    ELSE IF \E n \in DOMAIN options : ~isupper(n)
    THEN Outcome("TypeError", NoneV, "none", w, c)
    ELSE Outcome("", NoneV, "none",
                 [UserSettingsHolder_init(default_settings) EXCEPT !.attrs = options],
                 NoAttrs)

\* LazySettings.configured
configured(w) == w.kind # "empty"

(***************************************************************************)
(* LazySettings: the operations on `settings`                              *)
(***************************************************************************)
\* Names and values the operations are tried with.
ReadChoices == {"DEBUG", "SECRET_KEY", "MEDIA_URL", "SETTINGS_MODULE", "MY_OPT",
                "UNSET", "gettext_noop", "Mixed_Opt"}

SetChoices == {<<"DEBUG", FalseV>>, <<"UNSET", StrV(<<"u">>)>>}

DelChoices == {"DEBUG", "UNSET"}

OptionChoices ==
    {NoAttrs,
     [DEBUG |-> FalseV, UNSET |-> StrV(<<"o">>)],
     [Mixed_Opt |-> TrueV]}

\* What settings._wrapped is assigned: empty (as test code does to reset the
\* settings), or a fresh holder with an overriding value.
WrapChoices ==
    {Empty,
     [UserSettingsHolder_init("global_settings") EXCEPT
          !.attrs = [MEDIA_URL |-> StrV(<<"files", "/">>)]]}

\* The application is served under /app/.
PrefixChoices == {<<"/", "app", "/">>}

NotConfiguredWith == [on |-> FALSE, dflt |-> "", options |-> NoAttrs]

NoOut == [op |-> "none", name |-> "", exc |-> "", val |-> NoneV, setup |-> "none"]

\* The history of values read, after operation op on name with outcome r.
SeenAfter(op, name, r) ==
    IF op = "wrap" THEN NoAttrs
    ELSE IF op = "get" /\ r.exc = "" /\ name \notin DOMAIN seen
    THEN Put(seen, name, [val |-> r.val, touched |-> FALSE])
    ELSE IF op \in {"set", "del"} /\ name \in DOMAIN seen
    THEN [seen EXCEPT ![name].touched = TRUE]
    ELSE seen

\* The state after an operation with outcome r.
Apply(op, name, r) ==
    /\ wrapped' = r.wrapped
    /\ cache' = r.cache
    /\ seen' = SeenAfter(op, name, r)
    /\ out' = [op |-> op, name |-> name, exc |-> r.exc, val |-> r.val, setup |-> r.setup]
    /\ UNCHANGED <<env>>
    /\ UNCHANGED <<connVars, shellVars, templateVars>>

\* settings.<name>
Read(name) ==
    /\ Apply("get", name, LazySettings_read(wrapped, cache, name, env, scriptPrefix))
    /\ pending' = Drop(pending, name)
    /\ UNCHANGED <<configuredWith, scriptPrefix>>

\* settings.<name> = value
SetAttr(name, value) ==
    LET r == LazySettings_setattr(wrapped, cache, name, value, env)
    IN  /\ Apply("set", name, r)
        /\ pending' = IF r.exc = "" THEN Put(pending, name, value) ELSE pending
        /\ configuredWith' = NotConfiguredWith
        /\ UNCHANGED scriptPrefix

\* del settings.<name>
DelAttr(name) ==
    /\ Apply("del", name, LazySettings_delattr(wrapped, cache, name, env))
    /\ pending' = Drop(pending, name)
    /\ configuredWith' = NotConfiguredWith
    /\ UNCHANGED scriptPrefix

\* settings.configure(default_settings=D, **options)
Configure(D, options) ==
    LET r == LazySettings_configure(wrapped, cache, D, options)
    IN  /\ Apply("configure", "", r)
        /\ UNCHANGED pending
        /\ configuredWith' = IF r.exc = ""
                             THEN [on |-> TRUE, dflt |-> D, options |-> options]
                             ELSE configuredWith
        /\ UNCHANGED scriptPrefix

\* settings._wrapped = w: LazySettings.__setattr__ clears the whole cache.
SetWrapped(w) ==
    /\ Apply("wrap", "_wrapped", Outcome("", NoneV, "none", w, NoAttrs))
    /\ pending' = NoAttrs
    /\ configuredWith' = NotConfiguredWith
    /\ UNCHANGED scriptPrefix

\* Another request is served, under script prefix p: get_script_prefix() returns p
\* from now on.  The LazySettings is not touched.
SetScriptPrefix(p) ==
    /\ p # scriptPrefix
    /\ scriptPrefix' = p
    /\ Apply("prefix", "", Outcome("", NoneV, "none", wrapped, cache))
    /\ UNCHANGED <<configuredWith, pending>>

InitSettings ==
    /\ env \in EnvChoices
    /\ scriptPrefix \in PrefixChoices
    /\ wrapped = Empty
    /\ cache = NoAttrs
    /\ configuredWith = NotConfiguredWith
    /\ seen = NoAttrs
    /\ pending = NoAttrs
    /\ out = NoOut

NextSettings ==
    \/ \E n \in ReadChoices : Read(n)
    \/ \E p \in SetChoices : SetAttr(p[1], p[2])
    \/ \E n \in DelChoices : DelAttr(n)
    \/ \E D \in DOMAIN DefaultObjects, o \in OptionChoices : Configure(D, o)
    \/ \E w \in WrapChoices : SetWrapped(w)

\* The handler is not used in this specification.
InitSettingsOnly ==
    /\ InitSettings
    /\ ConnUnused
    /\ ShellUnused
    /\ TemplateUnused

SpecSettings == InitSettingsOnly /\ [][NextSettings]_vars

(***************************************************************************)
(* LazySettings: the cache of values read, under changing script prefixes  *)
(***************************************************************************)
\* The same operations, on settings loaded from one module or configured by hand,
\* with post-processed names among those assigned and with requests served under
\* two script prefixes.
CacheEnvChoices == {"", "proj.settings"}

CachePrefixChoices == {<<"/", "app", "/">>, <<"/", "shop", "/">>}

CacheReadChoices == {"DEBUG", "SECRET_KEY", "MEDIA_URL", "SETTINGS_MODULE"}

CacheSetChoices == {<<"DEBUG", FalseV>>, <<"MEDIA_URL", StrV(<<"files", "/">>)>>,
                    <<"SECRET_KEY", StrV(<<>>)>>}

CacheDelChoices == {"DEBUG", "SETTINGS_MODULE"}

InitCache ==
    /\ env \in CacheEnvChoices
    /\ scriptPrefix \in CachePrefixChoices
    /\ wrapped = Empty
    /\ cache = NoAttrs
    /\ configuredWith = NotConfiguredWith
    /\ seen = NoAttrs
    /\ pending = NoAttrs
    /\ out = NoOut
    /\ ConnUnused
    /\ ShellUnused
    /\ TemplateUnused

NextCache ==
    \/ \E n \in CacheReadChoices : Read(n)
    \/ \E p \in CacheSetChoices : SetAttr(p[1], p[2])
    \/ \E n \in CacheDelChoices : DelAttr(n)
    \/ \E o \in OptionChoices : Configure("global_settings", o)
    \/ \E w \in WrapChoices : SetWrapped(w)
    \/ \E p \in CachePrefixChoices : SetScriptPrefix(p)

SpecCache == InitCache /\ [][NextCache]_vars

(***************************************************************************)
(* LazySettings over a UserSettingsHolder: manual configuration only       *)
(***************************************************************************)
\* No settings module is named in the environment; the settings are configured by
\* configure() or by assigning _wrapped, and settings are assigned and deleted.
HolderReadChoices == {"DEBUG", "SETTINGS_MODULE", "MY_OPT", "gettext_noop"}

HolderSetChoices == {<<"DEBUG", FalseV>>, <<"SETTINGS_MODULE", StrV(<<"standalone">>)>>}

HolderDelChoices == {"DEBUG", "SETTINGS_MODULE", "MY_OPT"}

InitHolder ==
    /\ env = ""
    /\ scriptPrefix \in PrefixChoices
    /\ wrapped = Empty
    /\ cache = NoAttrs
    /\ configuredWith = NotConfiguredWith
    /\ seen = NoAttrs
    /\ pending = NoAttrs
    /\ out = NoOut
    /\ ConnUnused
    /\ ShellUnused
    /\ TemplateUnused

NextHolder ==
    \/ \E n \in HolderReadChoices : Read(n)
    \/ \E p \in HolderSetChoices : SetAttr(p[1], p[2])
    \/ \E n \in HolderDelChoices : DelAttr(n)
    \/ \E D \in DOMAIN DefaultObjects, o \in OptionChoices : Configure(D, o)
    \/ \E w \in WrapChoices : SetWrapped(w)

SpecHolder == InitHolder /\ [][NextHolder]_vars

(***************************************************************************)
(* Claims about the settings (checked under SpecSettings and SpecCache)    *)
(***************************************************************************)
\* Every step of either specification is one operation on `settings`, and out' records
\* which: its name, the attribute, the exception or value, and whether _setup ran.

\* The names of this model that are upper-case.
UpperCaseNames == {"DEBUG", "SECRET_KEY", "MEDIA_URL", "INSTALLED_APPS", "TIME_ZONE",
                   "SETTINGS_MODULE", "MY_OPT", "UNSET"}

\* C6 as stated: the settings module is loaded by an attribute read only.
C6_OnlyReadsLoad ==
    [][out'.setup = "loaded" => out'.op = "get"]_vars

\* C6, amended: the settings module is loaded lazily and once.  Nothing is loaded
\* at construction; _setup runs only in an attribute read, write or delete on an
\* unconfigured LazySettings; when it succeeds the LazySettings wraps a Settings
\* built from the module the environment variable names; and no read, write or
\* delete on a configured LazySettings runs _setup or replaces the wrapped object
\* by another.
C6_LazyLoadedOnce ==
    [][/\ out'.setup # "none" =>
             /\ wrapped.kind = "empty"
             /\ out'.op \in {"get", "set", "del"}
       /\ (wrapped.kind = "empty" /\ out'.op \in {"get", "set", "del"}) =>
             out'.setup # "none"
       /\ out'.setup = "loaded" =>
             /\ wrapped'.kind = "Settings"
             /\ wrapped'.module = env
       /\ out'.setup = "failed" => wrapped' = Empty
       /\ (wrapped.kind # "empty" /\ out'.op \in {"get", "set", "del"}) =>
             /\ out'.setup = "none"
             /\ wrapped'.kind = wrapped.kind
             /\ wrapped'.module = wrapped.module
      ]_vars

\* A read of the loaded settings, after earlier reads, that loaded nothing.
C6_Witness ==
    /\ out.op = "get"
    /\ out.exc = ""
    /\ out.setup = "none"
    /\ wrapped.kind = "Settings"
    /\ Cardinality(DOMAIN cache) >= 2

\* What C7 says of a freshly constructed Settings object obj for module m, for the
\* upper-case names in `uppers`.
OverlayHolds(obj, m, uppers) ==
    /\ \A N \in uppers :
          IF N \in DOMAIN UserModules[m]
          THEN N \in DOMAIN obj.attrs /\ obj.attrs[N] = UserModules[m][N]
          ELSE IF N \in DOMAIN global_settings
          THEN N \in DOMAIN obj.attrs /\ obj.attrs[N] = global_settings[N]
          ELSE N \notin DOMAIN obj.attrs
    /\ \A N \in Names :
          is_overridden(obj, N) <=> (N \in UpperCaseNames /\ N \in DOMAIN UserModules[m])
    /\ \A N \in Names \ UpperCaseNames : N \notin DOMAIN obj.attrs

\* C7 as stated: after Settings(settings_module), every upper-case name has the user
\* module's value if it defines the name, otherwise the default module's value;
\* is_overridden is true exactly for the user's upper-case names; other names are
\* not copied.
C7_OverlayForEveryUpperName ==
    [][(out'.op = "get" /\ out'.setup = "loaded")
       => OverlayHolds(wrapped', wrapped'.module, UpperCaseNames)]_vars

\* C7, amended: the same for every upper-case name other than SETTINGS_MODULE, which
\* the constructor sets itself: it holds the settings module's name unless the user
\* module defines it.
C7_OverlayExceptSettingsModule ==
    [][(out'.op = "get" /\ out'.setup = "loaded")
       => /\ OverlayHolds(wrapped', wrapped'.module, UpperCaseNames \ {"SETTINGS_MODULE"})
          /\ wrapped'.attrs["SETTINGS_MODULE"] =
                IF "SETTINGS_MODULE" \in DOMAIN UserModules[wrapped'.module]
                THEN UserModules[wrapped'.module]["SETTINGS_MODULE"]
                ELSE StrV(<<wrapped'.module>>)
      ]_vars

\* A Settings object was built from a module that overrides some defaults, leaves
\* others alone and has a name that is not upper-case.
C7_Witness ==
    /\ out.op = "get"
    /\ out.setup = "loaded"
    /\ wrapped.kind = "Settings"
    /\ wrapped.module = "proj.settings"

\* C8 as stated: with the settings loaded, reading a name set by neither module
\* (and by nothing else: not by the constructor, not by an assignment since) raises
\* ImproperlyConfigured and caches nothing for it.
C8_UnsetNameImproperlyConfigured ==
    (/\ out.op = "get"
     /\ wrapped.kind = "Settings"
     /\ out.name \notin DOMAIN global_settings
     /\ out.name \notin DOMAIN UserModules[wrapped.module]
     /\ out.name \notin DOMAIN wrapped.attrs)
    => (out.exc = "ImproperlyConfigured" /\ out.name \notin DOMAIN cache)

\* C8, amended: with the settings loaded, reading a name for which the Settings
\* object holds no attribute (no module set it as an upper-case name, it is not
\* SETTINGS_MODULE, and it was not assigned since) raises AttributeError and caches
\* nothing: the cache is what it was (empty, if this read did the loading).
C8_UnsetNameAttributeError ==
    [][(/\ out'.op = "get"
        /\ wrapped'.kind = "Settings"
        /\ out'.name \notin DOMAIN wrapped'.attrs)
       => /\ out'.exc = "AttributeError"
          /\ out'.name \notin DOMAIN cache'
          /\ cache' = IF out'.setup = "loaded" THEN NoAttrs ELSE cache
      ]_vars

\* An unset name was read from loaded settings whose cache holds other values.
C8_Witness ==
    /\ out.op = "get"
    /\ out.name = "UNSET"
    /\ out.exc = "AttributeError"
    /\ wrapped.kind = "Settings"
    /\ DOMAIN cache # {}

\* What C9 says of a read of name N while the configure(D, **options) recorded in
\* configuredWith is in effect.
ReadIsOptionOrDefault ==
    LET N == out.name
        D == DefaultObjects[configuredWith.dflt]
    IN  IF N \in DOMAIN configuredWith.options
        THEN out.exc = "" /\ out.val = configuredWith.options[N]
        ELSE IF N \in DOMAIN D
        THEN out.exc = "" /\ out.val = D[N]
        ELSE out.exc = "AttributeError"

\* C9 as stated: after configure(D, **options), reading any upper-case name other
\* than MEDIA_URL, STATIC_URL and SECRET_KEY gives options[N] if passed, else D's N.
C9_ConfigureFallsBackForEveryName ==
    (/\ configuredWith.on
     /\ out.op = "get"
     /\ out.name \in UpperCaseNames \ {"MEDIA_URL", "STATIC_URL", "SECRET_KEY"})
    => ReadIsOptionOrDefault

\* C9, amended: after configure(D, **options) on an unconfigured LazySettings, and
\* until a setting is written or deleted or _wrapped replaced, reading an upper-case
\* name other than MEDIA_URL, STATIC_URL, SECRET_KEY and SETTINGS_MODULE gives
\* options[N] if N was passed, otherwise D's value of N (AttributeError if D has
\* none); SETTINGS_MODULE reads as None unless passed; and the wrapped object is the
\* holder: no module is loaded.
C9_ConfigureFallsBackToDefaults ==
    configuredWith.on =>
        /\ wrapped.kind = "Holder"
        /\ out.setup = "none"
        /\ (/\ out.op = "get"
            /\ out.name \in UpperCaseNames \
                  {"MEDIA_URL", "STATIC_URL", "SECRET_KEY", "SETTINGS_MODULE"})
           => ReadIsOptionOrDefault
        /\ (out.op = "get" /\ out.name = "SETTINGS_MODULE") =>
              /\ out.exc = ""
              /\ out.val = IF "SETTINGS_MODULE" \in DOMAIN configuredWith.options
                           THEN configuredWith.options["SETTINGS_MODULE"]
                           ELSE NoneV

\* A name not passed to configure() was read from the defaults object given to it.
C9_Witness ==
    /\ configuredWith.on
    /\ configuredWith.dflt = "app_defaults"
    /\ "DEBUG" \in DOMAIN configuredWith.options
    /\ out.op = "get"
    /\ out.name = "MY_OPT"
    /\ out.exc = ""
    /\ out.val = StrV(<<"d">>)

\* C10: reconfiguration is forbidden.  A successful configure() and a _setup that
\* loaded the module both leave the LazySettings configured (_wrapped is not
\* empty); and configure() on a configured LazySettings raises RuntimeError and
\* leaves the wrapped object and the cache as they were.
C10_ReconfigurationForbidden ==
    [][/\ ((out'.op = "configure" /\ out'.exc = "") \/ out'.setup = "loaded")
          => wrapped'.kind # "empty"
       /\ (out'.op = "configure" /\ wrapped.kind # "empty")
          => /\ out'.exc = "RuntimeError"
             /\ wrapped' = wrapped
             /\ cache' = cache
      ]_vars

\* configure() was refused on loaded settings with values cached.
C10_Witness ==
    /\ out.op = "configure"
    /\ out.exc = "RuntimeError"
    /\ wrapped.kind = "Settings"
    /\ DOMAIN cache # {}

\* C11 as stated: once a name has been read, every later read of it returns the same
\* value, whatever operations come between, until _wrapped is assigned.
C11_ImmutableOnceRead ==
    (out.op = "get" /\ out.name \in DOMAIN seen)
    => (out.exc = "" /\ out.val = seen[out.name].val)

\* C11, amended: once a name N has been read, every later read of N returns the same
\* value under any sequence of reads, assignments and deletions of other names,
\* refused configure() calls and script-prefix changes; the value read can change
\* only after N itself is assigned or deleted, or _wrapped is assigned.
C11_ImmutableUntilWritten ==
    (/\ out.op = "get"
     /\ out.name \in DOMAIN seen
     /\ ~seen[out.name].touched)
    => (out.exc = "" /\ out.val = seen[out.name].val)

\* A name read before is read again, with the same result, after another name was
\* assigned and the script prefix changed.
C11_Witness ==
    /\ out.op = "get"
    /\ out.name = "MEDIA_URL"
    /\ out.exc = ""
    /\ out.val = StrV(<<"/", "app", "/", "media", "/">>)
    /\ scriptPrefix = <<"/", "shop", "/">>
    /\ "DEBUG" \in DOMAIN seen
    /\ seen["DEBUG"].touched

ReadOfAssigned(name, v) ==
    IF name \in {"MEDIA_URL", "STATIC_URL"} /\ v # NoneV
    THEN [exc |-> "", val |-> add_script_prefix(v, scriptPrefix)]
    ELSE IF name = "SECRET_KEY" /\ ~Truthy(v)
    THEN [exc |-> "ImproperlyConfigured", val |-> NoneV]
    ELSE [exc |-> "", val |-> v]

\* What C13 says of the cache: an assignment or deletion of N that succeeds removes
\* N's entry and no other, and an assignment of _wrapped empties the cache.
InvalidatesOnlyWritten ==
    /\ (out'.op \in {"set", "del"} /\ out'.exc = "") => cache' = Drop(cache, out'.name)
    /\ out'.op = "wrap" => (cache' = NoAttrs /\ seen' = NoAttrs)

\* C13 as stated: cache invalidation on write, and the next read of an assigned name
\* returns the value assigned.
C13_NextReadReturnsAssigned ==
    [][/\ InvalidatesOnlyWritten
       /\ (out'.op = "get" /\ out'.name \in DOMAIN pending)
          => (out'.exc = "" /\ out'.val = pending[out'.name])
      ]_vars

\* C13, amended: cache invalidation on write.  An assignment of N removes N's cached
\* entry and no other (also when it raises because nothing is configured); a deletion
\* of N that succeeds removes N's entry and no other, and one that raises leaves the
\* cache as it was; an assignment of _wrapped empties the cache; and the next read of
\* an assigned name is computed from the value assigned: that value, except that
\* MEDIA_URL and STATIC_URL get the script prefix and an empty SECRET_KEY raises
\* ImproperlyConfigured.
C13_InvalidationOnWrite ==
    [][/\ InvalidatesOnlyWritten
       /\ out'.op = "set" => cache' = Drop(cache, out'.name)
       /\ (out'.op = "del" /\ out'.exc # "") => cache' = cache
       /\ (out'.op = "get" /\ out'.name \in DOMAIN pending)
          => LET r == ReadOfAssigned(out'.name, pending[out'.name])
             IN  out'.exc = r.exc /\ out'.val = r.val
      ]_vars

\* A cached name was assigned and read again, with the new value, while another
\* cached name kept its entry.
C13_Witness ==
    /\ out.op = "get"
    /\ out.name = "DEBUG"
    /\ out.val = FalseV
    /\ "DEBUG" \in DOMAIN seen
    /\ seen["DEBUG"] = [val |-> TrueV, touched |-> TRUE]
    /\ "MEDIA_URL" \in DOMAIN cache
    /\ ~seen["MEDIA_URL"].touched

\* C17: a failed configuration attempt leaves the LazySettings unconfigured.  A read
\* of unconfigured settings with no module named in the environment raises
\* ImproperlyConfigured; a load that fails raises what _setup or the Settings
\* constructor raised; configure() on unconfigured settings either succeeds or
\* raises TypeError; after each of these failures settings.configured is False and
\* the cache is empty, and in every unconfigured state a configure() with upper-case
\* option names succeeds.
C17_FailedAttemptLeavesUnconfigured ==
    [][/\ (out'.op = "get" /\ ~configured(wrapped) /\ env = "")
          => (out'.exc = "ImproperlyConfigured" /\ out'.setup = "failed")
       /\ out'.setup = "failed"
          => /\ out'.exc = setup(env).exc
             /\ out'.exc \in {"ImproperlyConfigured", "ImportError", "ValueError"}
             /\ ~configured(wrapped')
             /\ cache' = NoAttrs
       /\ (out'.op = "configure" /\ ~configured(wrapped))
          => \/ out'.exc = "" /\ configured(wrapped')
             \/ out'.exc = "TypeError" /\ ~configured(wrapped') /\ cache' = NoAttrs
       /\ ~configured(wrapped')
          => \A D \in DOMAIN DefaultObjects, o \in OptionChoices :
                (DOMAIN o \subseteq UpperCaseNames)
                => LET r == LazySettings_configure(wrapped', cache', D, o)
                   IN  r.exc = "" /\ configured(r.wrapped)
      ]_vars

\* A read tried to load a module whose INSTALLED_APPS is a string: the error
\* propagated and the settings stayed unconfigured.
C17_Witness ==
    /\ env = "bad.settings"
    /\ out.op = "get"
    /\ out.setup = "failed"
    /\ out.exc = "ImproperlyConfigured"
    /\ ~configured(wrapped)
    /\ cache = NoAttrs

\* What C19 says of a name N deleted from holder obj.
StaysDeleted(obj, N) ==
    /\ obj_getattr(obj, N).exc = "AttributeError"
    /\ N \notin holder_dir(obj)
    /\ is_overridden(obj, N)

shells_python_first == <<"python", "ipython", "bpython">>

\* Command.shells
shells == <<"ipython", "bpython", "python">>

\* options['command']: not given (None), an empty string, or code to run.
CommandChoices == {"None", "", "code"}

\* options['interface']: not given (None) or one of the choices add_arguments allows.
InterfaceChoices == {"None"} \cup Range(shells)

PlatformChoices == {"linux", "win32"}

\* bool(options[...])
OptionGiven(v) == v \notin {"None", ""}

\* `sys.platform != 'win32' and not sys.stdin.isatty() and select.select(...)[0]`,
\* evaluated left to right: what is consulted, and the outcome.
stdin_has_input(sin) ==
    IF sin.platform = "win32" THEN [events |-> <<>>, yes |-> FALSE]
    ELSE IF sin.isatty THEN [events |-> <<<<"stdin", "isatty">>>>, yes |-> FALSE]
    ELSE [events |-> <<<<"stdin", "isatty">>, <<"stdin", "select">>>>, yes |-> sin.ready]

\* The loop over available_shells from position i on: getattr(self, shell)(options)
\* under `except ImportError: pass`, then the raise after the loop.
RECURSIVE try_shells(_, _, _, _)
try_shells(available_shells, i, events, imp) ==
    IF i > Len(available_shells)
    THEN [done |-> TRUE, events |-> events, result |-> "CommandError",
          message |-> available_shells[Len(available_shells)]]
    ELSE LET shell == available_shells[i]
         IN  IF shell \in imp
             THEN [done |-> TRUE,
                   events |-> events \o <<<<"import", shell>>, <<"start", shell>>>>,
                   result |-> "returned", message |-> ""]
             ELSE try_shells(available_shells, i + 1,
                             events \o <<<<"import", shell>>>>, imp)

\* handle() without the `return` after exec(options['command']).
handle_fallthrough(opts, sin, imp, raises) ==
    LET has == stdin_has_input(sin)
        available_shells == IF OptionGiven(opts.interface)
                            THEN <<opts.interface>> ELSE shells
        first == IF OptionGiven(opts.command) THEN <<<<"exec", "command">>>> ELSE <<>>
    IN  IF raises /\ OptionGiven(opts.command)
        THEN [done |-> TRUE, events |-> first, result |-> "Exception", message |-> ""]
        ELSE IF has.yes
        THEN [done |-> TRUE,
              events |-> first \o has.events \o <<<<"stdin", "read">>, <<"exec", "stdin">>>>,
              result |-> IF raises THEN "Exception" ELSE "returned", message |-> ""]
        ELSE try_shells(available_shells, 1, first \o has.events, imp)

\* Command.handle with its options; raises tells whether the code run by exec raises.
handle(opts, sin, imp, raises) ==
    LET ended == IF raises THEN "Exception" ELSE "returned"
        has == stdin_has_input(sin)
        available_shells == IF OptionGiven(opts.interface)
                            THEN <<opts.interface>> ELSE shells
    IN  IF OptionGiven(opts.command)
        THEN [done |-> TRUE, events |-> <<<<"exec", "command">>>>,
              result |-> ended, message |-> ""]
        ELSE IF has.yes
        THEN [done |-> TRUE,
              events |-> has.events \o <<<<"stdin", "read">>, <<"exec", "stdin">>>>,
              result |-> ended, message |-> ""]
        ELSE try_shells(available_shells, 1, has.events, imp)

\* manage.py shell: handle() runs once.
Handle ==
    /\ ~shellRun.done
    /\ \E raises \in BOOLEAN :
          shellRun' = handle(shellOptions, stdinState, importable, raises)
    /\ UNCHANGED <<shellOptions, stdinState, importable>>
    /\ UNCHANGED <<connVars, settingsVars, templateVars>>

InitShell ==
    /\ shellOptions \in [command : CommandChoices, interface : InterfaceChoices]
    /\ stdinState \in [platform : PlatformChoices, isatty : BOOLEAN, ready : BOOLEAN]
    /\ importable \in SUBSET Range(shells)
    /\ shellRun = NoShellRun
    /\ ConnUnused
    /\ SettingsUnused
    /\ TemplateUnused

NextShell == Handle

SpecShell == InitShell /\ [][NextShell]_vars

(***************************************************************************)
(* Claims about the shell command (checked under SpecShell)                *)
(***************************************************************************)
\* What handle() did: the events of one kind, in order.
ShellEvents(kind) == SelectSeq(shellRun.events, LAMBDA e : e[1] = kind)

\* The interfaces handle() tried, in order.
Tried == [i \in 1..Len(ShellEvents("import")) |-> ShellEvents("import")[i][2]]

StdinHasInput ==
    /\ stdinState.platform # "win32"
    /\ ~stdinState.isatty
    /\ stdinState.ready

C15_FirstImportableInterface ==
    (shellRun.done /\ ~OptionGiven(shellOptions.command) /\ ~StdinHasInput) =>
        LET available == IF OptionGiven(shellOptions.interface)
                         THEN <<shellOptions.interface>>
                         ELSE <<"ipython", "bpython", "python">>
            n == Len(Tried)
        IN  /\ n \in 1..Len(available)
            /\ Tried = SubSeq(available, 1, n)
            /\ \A i \in 1..(n - 1) : Tried[i] \notin importable
            /\ IF Tried[n] \in importable
               THEN /\ ShellEvents("start") = <<<<"start", Tried[n]>>>>
                    /\ shellRun.events[Len(shellRun.events)] = <<"start", Tried[n]>>
                    /\ shellRun.result = "returned"
               ELSE /\ ShellEvents("start") = <<>>
                    /\ n = Len(available)
                    /\ shellRun.result = "CommandError"
                    /\ shellRun.message = Tried[n]

\* With no interface option and IPython missing, bpython was started and python was
\* not tried.
C15_Witness ==
    /\ shellRun.done
    /\ shellOptions.interface = "None"
    /\ Tried = <<"ipython", "bpython">>
    /\ "python" \in importable
    /\ ShellEvents("start") = <<<<"start", "bpython">>>>

(***************************************************************************)
(* The scaffolding generator: TemplateCommand.handle                       *)
(***************************************************************************)
\* The longest template walked, in files.
MaxFiles == 2

\* File names are <<stem, suffix>>.  Template files the walk can yield, and the
\* files the destination directory can hold beforehand.
TemplateFileChoices ==
    {<<"manage", ".py-tpl">>, <<"manage", ".py">>, <<"README", ".txt">>,
     <<"cache", ".pyc">>}

DestFileChoices == {<<"manage", ".py">>, <<"README", ".txt">>, <<"notes", ".txt">>}

\* options['template']: not given, a local directory, a local archive, a local path
\* that does not exist, or a URL.
TemplateChoices == {"None", "dir", "archive", "missing", "url"}

\* All sequences without repetition of at most n elements of S.
RECURSIVE SeqsUpTo(_, _)
SeqsUpTo(S, n) ==
    IF n = 0 THEN {<<>>}
    ELSE LET shorter == SeqsUpTo(S, n - 1)
         IN  shorter \cup UNION {{Append(q, x) : x \in S \ Range(q)} :
                                    q \in {r \in shorter : Len(r) = n - 1}}

\* TemplateCommand.rewrite_template_suffixes
rewrite_template_suffixes == <<<<".py-tpl", ".py">>>>

\* handle_extensions(options['extensions']) with the default ['py']
extensions == {".py"}

\* new_path for a template file: the first matching suffix is rewritten.
new_path(file) ==
    LET hits == SelectSeq(rewrite_template_suffixes, LAMBDA r : r[1] = file[2])
    IN  IF hits = <<>> THEN file ELSE <<file[1], hits[1][2]>>

\* What handle() writes to new_path: the rendered template, or a copy.
written_content(file) ==
    IF new_path(file)[2] \in extensions
    THEN [how |-> "rendered", from |-> file]
    ELSE [how |-> "copied", from |-> file]

OldContent == [how |-> "old", from |-> <<>>]

NoFiles == [q \in {} |-> OldContent]

\* tempfile.mkdtemp without the append to self.paths_to_remove.
mkdtemp_unrecorded(m, d) ==
    [m EXCEPT !.tmp = @ \cup {d},
              !.events = @ \o <<<<"mkdtemp", d>>>>]

\* tempfile.mkdtemp followed by self.paths_to_remove.append(tempdir), as download()
\* and extract() do: m is the run so far (paths_to_remove, temporary directories,
\* events).
mkdtemp_recorded(m, d) ==
    [m EXCEPT !.tmp = @ \cup {d},
              !.paths = Append(@, d),
              !.events = @ \o <<<<"mkdtemp", d>>, <<"append", d>>>>]

\* TemplateCommand.download(url): the exception raised, and the run afterwards.
download(m, ok) ==
    LET m1 == mkdtemp_recorded(m, "download")
    IN  [exc |-> IF ok THEN "" ELSE "CommandError", m |-> m1]

\* TemplateCommand.extract(filename)
extract(m, ok) ==
    LET m1 == mkdtemp_recorded(m, "extract")
    IN  [exc |-> IF ok THEN "" ELSE "CommandError", m |-> m1]

\* TemplateCommand.handle_template(template, subdir)
handle_template(m, inp) ==
    CASE inp.template \in {"None", "dir"} -> [exc |-> "", m |-> m]
      [] inp.template = "missing" -> [exc |-> "CommandError", m |-> m]
      [] inp.template = "archive" -> extract(m, inp.extractOk)
      [] inp.template = "url" ->
            LET d == download(m, inp.downloadOk)
            IN  IF d.exc # "" THEN d ELSE extract(d.m, inp.extractOk)

\* The top of handle(): validate_name, then top_dir (created when no target is
\* given, required to exist when one is).
top_dir_error(inp) ==
    \/ ~inp.nameOk
    \/ inp.target = "None" /\ inp.topDirExists
    \/ inp.target # "None" /\ ~inp.topDirExists

\* The cleanup at the end of handle(): every path in paths_to_remove is removed.
cleanup(m) ==
    [m EXCEPT !.tmp = @ \ Range(m.paths),
              !.events = @ \o [i \in 1..Len(m.paths) |-> <<"rmtree", m.paths[i]>>]]

\* One file of the walk, written without looking at the destination.
copy_file_overwrite(dest, file) ==
    IF file[2] \in {".pyo", ".pyc", ".py.class"}
    THEN [exc |-> "", dest |-> dest, events |-> <<>>]
    ELSE [exc |-> "", dest |-> Put(dest, new_path(file), written_content(file)),
          events |-> <<<<"write", new_path(file)>>>>]

\* One file of the walk (the body of `for filename in files`).
copy_file(dest, file) ==
    IF file[2] \in {".pyo", ".pyc", ".py.class"}
    THEN [exc |-> "", dest |-> dest, events |-> <<>>]
    ELSE IF new_path(file) \in DOMAIN dest
    THEN [exc |-> "CommandError", dest |-> dest,
          events |-> <<<<"exists", new_path(file)>>>>]
    ELSE [exc |-> "", dest |-> Put(dest, new_path(file), written_content(file)),
          events |-> <<<<"exists", new_path(file)>>, <<"write", new_path(file)>>>>]

NoTplRun == [pc |-> "start", i |-> 0, paths_to_remove |-> <<>>, events |-> <<>>,
             result |-> ""]

\* handle() up to the walk: names, top_dir, handle_template.
HandleStart ==
    /\ tplRun.pc = "start"
    /\ IF top_dir_error(tplInput)
       THEN /\ tplRun' = [tplRun EXCEPT !.pc = "done", !.result = "CommandError"]
            /\ UNCHANGED tmpDirs
       ELSE LET r == handle_template([paths |-> <<>>, tmp |-> tmpDirs, events |-> <<>>],
                                     tplInput)
            IN  /\ tmpDirs' = r.m.tmp
                /\ tplRun' = [pc |-> IF r.exc = "" THEN "copy" ELSE "done",
                              i |-> 1,
                              paths_to_remove |-> r.m.paths,
                              events |-> r.m.events,
                              result |-> r.exc]
    /\ UNCHANGED <<tplInput, destFiles>>
    /\ UNCHANGED <<connVars, settingsVars, shellVars>>

\* The next file of the walk.
CopyFile ==
    /\ tplRun.pc = "copy"
    /\ tplRun.i <= Len(tplInput.files)
    /\ LET r == copy_file(destFiles, tplInput.files[tplRun.i])
       IN  /\ destFiles' = r.dest
           /\ tplRun' = [tplRun EXCEPT !.i = @ + 1,
                                       !.events = @ \o r.events,
                                       !.pc = IF r.exc = "" THEN "copy" ELSE "done",
                                       !.result = r.exc]
    /\ UNCHANGED <<tplInput, tmpDirs>>
    /\ UNCHANGED <<connVars, settingsVars, shellVars>>

\* After the walk: the temporary paths are removed and handle() returns.
Finish ==
    /\ tplRun.pc = "copy"
    /\ tplRun.i > Len(tplInput.files)
    /\ LET m == cleanup([paths |-> tplRun.paths_to_remove, tmp |-> tmpDirs,
                         events |-> tplRun.events])
       IN  /\ tmpDirs' = m.tmp
           /\ tplRun' = [tplRun EXCEPT !.pc = "done", !.events = m.events,
                                       !.result = "returned"]
    /\ UNCHANGED <<tplInput, destFiles>>
    /\ UNCHANGED <<connVars, settingsVars, shellVars>>

InitTemplate ==
    /\ tplInput \in
          {[template |-> t, target |-> g, nameOk |-> n, topDirExists |-> e,
            downloadOk |-> d, extractOk |-> x, files |-> f,
            dest |-> [q \in S |-> OldContent]] :
              t \in TemplateChoices, g \in {"None", "dir"}, n \in BOOLEAN,
              e \in BOOLEAN, d \in BOOLEAN, x \in BOOLEAN,
              f \in SeqsUpTo(TemplateFileChoices, MaxFiles),
              S \in SUBSET DestFileChoices}
    /\ ~tplInput.topDirExists => tplInput.dest = NoFiles
    /\ destFiles = tplInput.dest
    /\ tmpDirs = {}
    /\ tplRun = NoTplRun
    /\ ConnUnused
    /\ SettingsUnused
    /\ ShellUnused

NextTemplate ==
    \/ HandleStart
    \/ CopyFile
    \/ Finish

SpecTemplate == InitTemplate /\ [][NextTemplate]_vars

(***************************************************************************)
(* Claims about the scaffolding generator (checked under SpecTemplate)     *)
(***************************************************************************)
\* C16: the generator never replaces a conflicting file.  No step of handle()
\* removes or changes a file the destination holds; every write of a path comes
\* right after the test whether that path exists; the step for a template file whose
\* target exists raises CommandError and leaves the destination as it was; and at
\* every point, also after handle() returned or raised, each file the destination
\* held before the call is there with its content.
C16_NoConflictingFileReplaced ==
    [][/\ \A q \in DOMAIN destFiles :
             q \in DOMAIN destFiles' /\ destFiles'[q] = destFiles[q]
       /\ \A i \in 1..Len(tplRun'.events) :
             tplRun'.events[i][1] = "write"
             => (i > 1 /\ tplRun'.events[i - 1] = <<"exists", tplRun'.events[i][2]>>)
       /\ (/\ tplRun.pc = "copy"
           /\ tplRun'.i = tplRun.i + 1
           /\ tplInput.files[tplRun.i][2] \notin {".pyo", ".pyc", ".py.class"}
           /\ new_path(tplInput.files[tplRun.i]) \in DOMAIN destFiles)
          => /\ tplRun'.result = "CommandError"
             /\ tplRun'.pc = "done"
             /\ destFiles' = destFiles
       /\ \A q \in DOMAIN tplInput.dest :
             q \in DOMAIN destFiles' /\ destFiles'[q] = tplInput.dest[q]
      ]_vars

\* handle() wrote one file and then raised on a template file whose target was in
\* the destination before the call.
C16_Witness ==
    /\ tplRun.pc = "done"
    /\ tplRun.result = "CommandError"
    /\ \E i \in 1..Len(tplRun.events) : tplRun.events[i][1] = "write"
    /\ tplRun.events[Len(tplRun.events)][1] = "exists"
    /\ tplRun.events[Len(tplRun.events)][2] \in DOMAIN tplInput.dest
    /\ destFiles[tplRun.events[Len(tplRun.events)][2]] = OldContent

\* C20: temporary files are cleaned up.  Every temporary directory download() or
\* extract() creates is appended to paths_to_remove right after mkdtemp, so every
\* temporary directory that exists is recorded; and when handle() has returned
\* normally every recorded path has been removed and no temporary directory is left.
C20_TemporaryPathsRemoved ==
    /\ \A i \in 1..Len(tplRun.events) :
          tplRun.events[i][1] = "mkdtemp"
          => /\ i < Len(tplRun.events)
             /\ tplRun.events[i + 1] = <<"append", tplRun.events[i][2]>>
             /\ tplRun.events[i][2] \in Range(tplRun.paths_to_remove)
    /\ tmpDirs \subseteq Range(tplRun.paths_to_remove)
    /\ tplRun.result = "returned"
       => /\ tmpDirs = {}
          /\ \A i \in 1..Len(tplRun.paths_to_remove) :
                <<"rmtree", tplRun.paths_to_remove[i]>> \in Range(tplRun.events)

\* handle() returned after downloading and extracting a template and writing a
\* file: both temporary directories were recorded and are gone.
C20_Witness ==
    /\ tplRun.result = "returned"
    /\ tplRun.paths_to_remove = <<"download", "extract">>
    /\ tmpDirs = {}
    /\ \E i \in 1..Len(tplRun.events) : tplRun.events[i][1] = "write"

====
